---- MODULE Spec2Model ----
(***************************************************************************)
(* pycomby: a Comby-like structural search and replace engine.             *)
(* Strings are sequences of one-character strings; Python's None for a     *)
(* capture value is NoneVal.  Positions are Python's 0-based indexes.      *)
(***************************************************************************)
EXTENDS Integers, Sequences, FiniteSets, TLC

\* ------------------------------------------------------------------------
\* Bounds of the model
\* ------------------------------------------------------------------------
\* longest enumerated input text
MaxLen == 3
\* the all-matches loop is followed while offset and len(result_text) stay
\* within len(text) + MaxGrow
MaxGrow == 2

\* ------------------------------------------------------------------------
\* Python string primitives
\* ------------------------------------------------------------------------
NoneVal == <<"None">>

Min(a, b) == IF a < b THEN a ELSE b

\* the element of a one-element set
The(S) == CHOOSE x \in S : TRUE

\* s[a:b] for 0 <= a, 0 <= b
Slice(s, a, b) ==
    LET bb == Min(b, Len(s))
    IN IF a >= bb THEN <<>> ELSE SubSeq(s, a + 1, bb)

\* s[a:]
SliceFrom(s, a) == Slice(s, a, Len(s))

Digits == {"0", "1", "2", "3", "4", "5", "6", "7", "8", "9"}

LowerLetters ==
    <<"a", "b", "c", "d", "e", "f", "g", "h", "i", "j", "k", "l", "m",
      "n", "o", "p", "q", "r", "s", "t", "u", "v", "w", "x", "y", "z">>

UpperLetters ==
    <<"A", "B", "C", "D", "E", "F", "G", "H", "I", "J", "K", "L", "M",
      "N", "O", "P", "Q", "R", "S", "T", "U", "V", "W", "X", "Y", "Z">>

Range(f) == {f[k] : k \in DOMAIN f}

\* \d, \w and \s of Python's re on the ASCII characters
IsDigit(c) == c \in Digits
IsWord(c) == c \in Digits \cup Range(LowerLetters) \cup Range(UpperLetters) \cup {"_"}
IsSpace(c) == c \in {" ", "\t", "\n", "\r", "\f"}

AllOf(s, P(_)) == \A k \in 1..Len(s) : P(s[k])

\* ------------------------------------------------------------------------
\* Pattern representation
\* ------------------------------------------------------------------------
\* LiteralToken(text, regex): the regex is determined by the text
LiteralToken(s) ==
    [kind |-> "literal", txt |-> s, name |-> <<>>, macro |-> <<>>,
     regex |-> <<>>, optional |-> FALSE]

\* HoleToken(name, macro, regex, optional); <<>> stands for None (a name,
\* once set, is never empty; an empty macro or regex behaves as None)
HoleToken(name, macro, regex, optional) ==
    [kind |-> "hole", txt |-> <<>>, name |-> name, macro |-> macro,
     regex |-> regex, optional |-> optional]

REGEX_MACROS == {<<"d", "i", "g", "i", "t">>, <<"w", "o", "r", "d">>, <<"n", "u", "m">>}

STRUCTURAL_MACROS ==
    [m \in {<<"(", ")">>, <<"[", "]">>, <<"{", "}">>,
            <<"(", "_", ")">>, <<"[", "_", "]">>, <<"{", "_", "}">>} |->
        [open_ch |-> m[1], close_ch |-> m[Len(m)], inner_only |-> Len(m) = 3]]

\* ------------------------------------------------------------------------
\* Regular expressions
\* ------------------------------------------------------------------------
\* [-+]?[0-9]+(?:\.[0-9]+)?(?:[eE][-+]?[0-9]+)? against the whole of s
NumFull(s) ==
    LET sg == IF Len(s) > 0 /\ s[1] \in {"-", "+"} THEN 1 ELSE 0
        r == SliceFrom(s, sg)
        IsInt(x) == Len(x) >= 1 /\ AllOf(x, IsDigit)
        IsFrac(x) == x = <<>> \/ (x[1] = "." /\ IsInt(SliceFrom(x, 1)))
        IsExp(x) ==
            \/ x = <<>>
            \/ /\ x[1] \in {"e", "E"}
               /\ LET y == SliceFrom(x, 1)
                      ys == IF Len(y) > 0 /\ y[1] \in {"-", "+"} THEN 1 ELSE 0
                  IN IsInt(SliceFrom(y, ys))
    IN \E a \in 1..Len(r) : \E b \in a..Len(r) :
          /\ IsInt(Slice(r, 0, a))
          /\ IsFrac(Slice(r, a, b))
          /\ IsExp(SliceFrom(r, b))

\* the macro's regex against the whole of s
MacroFull(macro, s) ==
    CASE macro = <<"d", "i", "g", "i", "t">> -> Len(s) >= 1 /\ AllOf(s, IsDigit)
      [] macro = <<"w", "o", "r", "d">> -> Len(s) >= 1 /\ AllOf(s, IsWord)
      [] macro = <<"n", "u", "m">> -> NumFull(s)
      [] OTHER -> FALSE

\* re.compile("^(?:" + macro + ")$").match(s): `$` also matches just before
\* a newline that ends the string
MacroMatch(macro, s) ==
    \/ MacroFull(macro, s)
    \/ /\ Len(s) >= 1
       /\ s[Len(s)] = "\n"
       /\ MacroFull(macro, Slice(s, 0, Len(s) - 1))

\* the user regexes the model knows: source -> fullmatch
UserRegexes ==
    {<<".", "*">>, <<".", "+">>, <<"\\", "d", "+">>, <<"\\", "w", "+">>,
     <<"\\", "s", "+">>}

\* user regexes re.compile rejects
InvalidRegexes == {<<"[", "i", "n", "v", "a", "l", "i", "d">>, <<"(">>, <<"*">>}

NotNewline(c) == c # "\n"

\* hole.regex.fullmatch(s)
RegexFullmatch(src, s) ==
    CASE src = <<".", "*">> -> AllOf(s, NotNewline)
      [] src = <<".", "+">> -> Len(s) >= 1 /\ AllOf(s, NotNewline)
      [] src = <<"\\", "d", "+">> -> Len(s) >= 1 /\ AllOf(s, IsDigit)
      [] src = <<"\\", "w", "+">> -> Len(s) >= 1 /\ AllOf(s, IsWord)
      [] src = <<"\\", "s", "+">> -> Len(s) >= 1 /\ AllOf(s, IsSpace)
      [] OTHER -> FALSE

\* The literal's regex is re.escape(text) with every run of spaces turned
\* into \s*; literal_match is token.regex.match(t, i): the end of the match,
\* or -1.  \s* is greedy and gives characters back when the rest fails.
RECURSIVE literal_from(_, _, _, _)
RECURSIVE literal_spaces(_, _, _, _, _)

literal_from(lit, j, t, i) ==
    IF j > Len(lit) THEN i
    ELSE IF lit[j] = " "
         THEN LET RunEnd[k \in j..Len(lit)] ==
                      IF k < Len(lit) /\ lit[k + 1] = " " THEN RunEnd[k + 1] ELSE k
                  WsEnd[p \in i..Len(t)] ==
                      IF p < Len(t) /\ IsSpace(t[p + 1]) THEN WsEnd[p + 1] ELSE p
              IN literal_spaces(lit, RunEnd[j] + 1, t, i, WsEnd[i])
         ELSE IF i < Len(t) /\ t[i + 1] = lit[j]
              THEN literal_from(lit, j + 1, t, i + 1)
              ELSE -1

\* \s* having taken t[i..e): try the rest, then give one character back
literal_spaces(lit, j, t, i, e) ==
    LET r == literal_from(lit, j, t, e)
    IN IF r # -1 THEN r
       ELSE IF e > i THEN literal_spaces(lit, j, t, i, e - 1)
            ELSE -1

literal_match(lit, t, i) == literal_from(lit, 1, t, i)

\* ------------------------------------------------------------------------
\* Balanced scanner
\* ------------------------------------------------------------------------
\* the while loop of match_balanced; in_string is "" for None; the result is
\* the position after the closing delimiter, or -1
RECURSIVE balanced_scan(_, _, _, _, _, _, _, _)
balanced_scan(t, i, depth, in_string, in_line_comment, in_block_comment, open_ch, close_ch) ==
    IF i >= Len(t) THEN -1
    ELSE
      LET c == t[i + 1]
          nxt == IF i + 1 < Len(t) THEN t[i + 2] ELSE ""
          Go(i2, d2, s2, l2, b2) == balanced_scan(t, i2, d2, s2, l2, b2, open_ch, close_ch)
      IN IF in_string # ""
         THEN IF c = "\\" THEN Go(i + 2, depth, in_string, FALSE, FALSE)
              ELSE IF c = in_string THEN Go(i + 1, depth, "", FALSE, FALSE)
              ELSE Go(i + 1, depth, in_string, FALSE, FALSE)
         ELSE IF in_line_comment
         THEN Go(i + 1, depth, "", c # "\n", FALSE)
         ELSE IF in_block_comment
         THEN IF c = "*" /\ nxt = "/" THEN Go(i + 2, depth, "", FALSE, FALSE)
              ELSE Go(i + 1, depth, "", FALSE, TRUE)
         ELSE IF c = "/" /\ nxt = "/" THEN Go(i + 2, depth, "", TRUE, FALSE)
         ELSE IF c = "/" /\ nxt = "*" THEN Go(i + 2, depth, "", FALSE, TRUE)
         ELSE IF c = "\"" \/ c = "'" THEN Go(i + 1, depth, c, FALSE, FALSE)
         ELSE IF c = open_ch THEN Go(i + 1, depth + 1, "", FALSE, FALSE)
         ELSE IF c = close_ch
         THEN IF depth - 1 = 0 THEN i + 1
              ELSE Go(i + 1, depth - 1, "", FALSE, FALSE)
         ELSE Go(i + 1, depth, "", FALSE, FALSE)

\* match_balanced with the chunk cut inside the delimiters for every macro
match_balanced_inner_always(t, i, open_ch, close_ch, inner_only) ==
    IF i >= Len(t) \/ t[i + 1] # open_ch
    THEN [new_i |-> -1, chunk |-> <<>>]
    ELSE LET end == balanced_scan(t, i + 1, 1, "", FALSE, FALSE, open_ch, close_ch)
         IN IF end = -1 THEN [new_i |-> -1, chunk |-> <<>>]
            ELSE [new_i |-> end, chunk |-> Slice(t, i + 1, end - 1)]

\* (new_i, chunk); new_i = -1 stands for (None, None)
match_balanced(t, i, open_ch, close_ch, inner_only) ==
    IF i >= Len(t) \/ t[i + 1] # open_ch
    THEN [new_i |-> -1, chunk |-> <<>>]
    ELSE LET end == balanced_scan(t, i + 1, 1, "", FALSE, FALSE, open_ch, close_ch)
         IN IF end = -1 THEN [new_i |-> -1, chunk |-> <<>>]
            ELSE [new_i |-> end,
                  chunk |-> IF inner_only THEN Slice(t, i + 1, end - 1)
                            ELSE Slice(t, i, end)]

\* ------------------------------------------------------------------------
\* Matching engine (backtracking)
\* ------------------------------------------------------------------------
\* captures: a function from names to values; {} is the empty function
EmptyCaptures == [n \in {} |-> <<>>]

\* dict(captures) with captures[name] = value
Bind(captures, name, value) ==
    [n \in DOMAIN captures \cup {name} |-> IF n = name THEN value ELSE captures[n]]

\* What each token took, in pattern order, kept beside the captures: the
\* slice [s, e) and whether the token was an optional hole that was skipped.
Seg(s, e, skipped) == [s |-> s, e |-> e, skipped |-> skipped]

\* skip_bind that sets the name to None whether or not it is bound
skip_bind_overwrite(captures, name) ==
    IF name # <<>> THEN Bind(captures, name, NoneVal) ELSE captures

\* the captures of a skipped optional hole, lines 362-364
skip_bind(captures, name) ==
    IF name # <<>> /\ name \notin DOMAIN captures
    THEN Bind(captures, name, NoneVal)
    ELSE captures

\* lines 340-347: the slice passes the hole's macro and regex constraints
Constraint(hole, substr) ==
    /\ hole.macro \in REGEX_MACROS => MacroMatch(hole.macro, substr)
    /\ hole.regex # <<>> => RegexFullmatch(hole.regex, substr)

IsConstrained(hole) == hole.macro \in REGEX_MACROS \/ hole.regex # <<>>

\* end_iter with the constrained holes tried shortest-first
end_iter_shortest_first(hole, t, i) ==
    IF IsConstrained(hole)
    THEN [k \in 1..(Len(t) - i) |-> i + k]
    ELSE [k \in 1..(Len(t) + 1 - i) |-> i + k - 1]

\* end_iter with the wildcard holes tried longest-first
end_iter_longest_first(hole, t, i) ==
    IF IsConstrained(hole)
    THEN [k \in 1..(Len(t) - i) |-> Len(t) - k + 1]
    ELSE [k \in 1..(Len(t) + 1 - i) |-> Len(t) - k + 1]

\* end_iter with no empty candidate for a wildcard
end_iter_nonempty(hole, t, i) ==
    IF IsConstrained(hole)
    THEN [k \in 1..(Len(t) - i) |-> Len(t) - k + 1]
    ELSE [k \in 1..(Len(t) - i) |-> i + k]

\* end_iter: the candidate end positions in the order they are tried
end_iter(hole, t, i) ==
    IF IsConstrained(hole)
    THEN [k \in 1..(Len(t) - i) |-> Len(t) - k + 1]
    ELSE [k \in 1..(Len(t) + 1 - i) |-> i + k - 1]

RECURSIVE match_from(_, _, _, _, _, _)
RECURSIVE match_hole(_, _, _, _, _, _, _)

\* the result is (ok, end_pos, caps), with the segments of the tokens matched
match_from(t, toks, ti, i, captures, segs) ==
    IF ti = Len(toks)
    THEN [ok |-> TRUE, end |-> i, caps |-> captures, segs |-> segs]
    ELSE
      LET token == toks[ti + 1]
      IN IF token.kind = "literal"
         THEN LET e == literal_match(token.txt, t, i)
              IN IF e = -1
                 THEN [ok |-> FALSE, end |-> i, caps |-> captures, segs |-> segs]
                 ELSE match_from(t, toks, ti + 1, e, captures,
                                 Append(segs, Seg(i, e, FALSE)))
         ELSE IF token.macro \in DOMAIN STRUCTURAL_MACROS
         THEN LET sm == STRUCTURAL_MACROS[token.macro]
                  b == match_balanced(t, i, sm.open_ch, sm.close_ch, sm.inner_only)
              IN IF b.new_i = -1
                 THEN [ok |-> FALSE, end |-> i, caps |-> captures, segs |-> segs]
                 ELSE match_from(t, toks, ti + 1, b.new_i,
                                 IF token.name # <<>>
                                 THEN Bind(captures, token.name, b.chunk)
                                 ELSE captures,
                                 Append(segs, Seg(i, b.new_i, FALSE)))
         ELSE match_hole(t, toks, ti, i, captures, segs, 1)

\* the loop over end_iter from its k-th candidate on, and the optional skip
\* after it
match_hole(t, toks, ti, i, captures, segs, k) ==
    LET hole == toks[ti + 1]
        ends == end_iter(hole, t, i)
    IN IF k > Len(ends)
       THEN IF hole.optional
            THEN match_from(t, toks, ti + 1, i, skip_bind(captures, hole.name),
                            Append(segs, Seg(i, i, TRUE)))
            ELSE [ok |-> FALSE, end |-> i, caps |-> captures, segs |-> segs]
       ELSE
         LET end == ends[k]
             substr == Slice(t, i, end)
         IN IF ~Constraint(hole, substr)
            THEN match_hole(t, toks, ti, i, captures, segs, k + 1)
            ELSE LET r == match_from(t, toks, ti + 1, end,
                                     IF hole.name # <<>>
                                     THEN Bind(captures, hole.name, substr)
                                     ELSE captures,
                                     Append(segs, Seg(i, end, FALSE)))
                 IN IF r.ok THEN r
                    ELSE match_hole(t, toks, ti, i, captures, segs, k + 1)

\* the anchors from len(text) down to 0
Anchors_descending(t) == [k \in 1..(Len(t) + 1) |-> Len(t) + 1 - k]

\* the anchors match_first tries, in order
Anchors(t) == [k \in 1..(Len(t) + 1) |-> k - 1]

RECURSIVE match_first_from(_, _, _, _)
match_first_from(t, toks, anchors, k) ==
    IF k > Len(anchors)
    THEN [ok |-> FALSE, start |-> 0, end |-> 0, caps |-> EmptyCaptures, segs |-> <<>>]
    ELSE LET r == match_from(t, toks, 0, anchors[k], EmptyCaptures, <<>>)
         IN IF r.ok
            THEN [ok |-> TRUE, start |-> anchors[k], end |-> r.end,
                  caps |-> r.caps, segs |-> r.segs]
            ELSE match_first_from(t, toks, anchors, k + 1)

\* (ok, (start_pos, end_pos), captures)
match_first(t, toks) == match_first_from(t, toks, Anchors(t), 1)

\* ------------------------------------------------------------------------
\* Pattern compilation
\* ------------------------------------------------------------------------
\* s.find(c, from): the first index >= from holding c, or -1
IndexOf(s, c, from) ==
    LET hits == {k \in from .. Len(s) - 1 : s[k + 1] = c}
    IN IF hits = {} THEN -1 ELSE CHOOSE k \in hits : \A j \in hits : k <= j

RECURSIVE LStrip(_)
LStrip(s) == IF s # <<>> /\ IsSpace(s[1]) THEN LStrip(Tail(s)) ELSE s

RECURSIVE RStrip(_)
RStrip(s) ==
    IF s # <<>> /\ IsSpace(s[Len(s)]) THEN RStrip(Slice(s, 0, Len(s) - 1)) ELSE s

\* s.strip()
Strip(s) == LStrip(RStrip(s))

\* pattern.replace("...", ":[_]")
ReplaceDots(p) ==
    LET from[k \in 0 .. Len(p)] ==
            IF k >= Len(p) THEN <<>>
            ELSE IF Slice(p, k, k + 3) = <<".", ".", ".">>
                 THEN <<":", "[", "_", "]">> \o from[k + 3]
                 ELSE <<p[k + 1]>> \o from[k + 1]
    IN from[0]

\* parse_hole: err is "" or the error raised ("UnmodelledRegex" marks a user
\* regex outside UserRegexes and InvalidRegexes, which no pattern drawn here has)
parse_hole(content0) ==
    LET optional == content0 # <<>> /\ content0[Len(content0)] = "?"
    IN The({ The({
         LET cut == IF tilde # -1 THEN tilde ELSE colon
         IN The({
              LET name == IF lhs # <<>> /\ lhs # <<"_">> THEN lhs ELSE <<>>
                  macro == IF tilde = -1 /\ colon # -1 THEN rhs ELSE <<>>
                  regex_pat == IF tilde # -1 THEN rhs ELSE <<>>
              IN IF macro # <<>> /\ macro \notin REGEX_MACROS
                    /\ macro \notin DOMAIN STRUCTURAL_MACROS
                 THEN [err |-> "UnknownMacro", tok |-> HoleToken(name, macro, <<>>, optional)]
                 ELSE IF regex_pat \in InvalidRegexes
                 THEN [err |-> "InvalidRegex", tok |-> HoleToken(name, <<>>, regex_pat, optional)]
                 ELSE IF regex_pat # <<>> /\ regex_pat \notin UserRegexes
                 THEN [err |-> "UnmodelledRegex",
                       tok |-> HoleToken(name, <<>>, regex_pat, optional)]
                 ELSE [err |-> "", tok |-> HoleToken(name, macro, regex_pat, optional)]
              : lhs \in {IF cut # -1 THEN Strip(Slice(content, 0, cut)) ELSE Strip(content)},
                rhs \in {IF cut # -1 THEN Strip(SliceFrom(content, cut + 1)) ELSE <<>>} })
         : tilde \in {IndexOf(content, "~", 0)}, colon \in {IndexOf(content, ":", 0)} })
       : content \in {IF optional THEN Slice(content0, 0, Len(content0) - 1) ELSE content0} })

\* HOLE_RE.search(p, from): the leftmost ":[" at or after from that has a "]"
\* after it; start = -1 when there is none
hole_search(p, from) ==
    LET search[k \in 0 .. Len(p)] ==
            IF k + 1 >= Len(p) THEN [start |-> -1, close |-> -1]
            ELSE IF p[k + 1] = ":" /\ p[k + 2] = "[" /\ IndexOf(p, "]", k + 2) # -1
                 THEN [start |-> k, close |-> IndexOf(p, "]", k + 2)]
                 ELSE search[k + 1]
    IN search[from]

\* the contents of the holes HOLE_RE.finditer(p) yields from position from on
HoleContents(p, from) ==
    LET found[k \in 0 .. Len(p)] ==
            The({ IF h.start = -1 THEN {}
                  ELSE {Slice(p, h.start + 2, h.close)} \cup found[h.close + 1]
                  : h \in {hole_search(p, k)} })
    IN found[from]

\* the loop of compile_pattern over HOLE_RE.finditer, and the trailing literal
\* (the tokens appended from pos on; the first hole that fails to parse raises)
compile_from(p, pos, tokens) ==
    LET rest[k \in 0 .. Len(p)] ==
            The({ IF m.start = -1
                  THEN [err |-> "",
                        tokens |-> IF k < Len(p)
                                   THEN <<LiteralToken(SliceFrom(p, k))>>
                                   ELSE <<>>]
                  ELSE The({ IF h.err # ""
                             THEN [err |-> h.err, tokens |-> <<>>]
                             ELSE The({ IF r.err # "" THEN r
                                        ELSE [err |-> "",
                                              tokens |-> (IF m.start > k
                                                          THEN <<LiteralToken(Slice(p, k, m.start))>>
                                                          ELSE <<>>)
                                                         \o <<h.tok>> \o r.tokens]
                                        : r \in {rest[m.close + 1]} })
                             : h \in {parse_hole(Slice(p, m.start + 2, m.close))} })
                  : m \in {hole_search(p, k)} })
    IN The({ IF r.err # "" THEN r ELSE [err |-> "", tokens |-> tokens \o r.tokens]
             : r \in {rest[pos]} })

compile_pattern(p) == The({ compile_from(q, 0, <<>>) : q \in {ReplaceDots(p)} })

\* ------------------------------------------------------------------------
\* Replacement rendering
\* ------------------------------------------------------------------------
\* s.split(c)
RECURSIVE Split(_, _)
Split(s, c) ==
    LET k == IndexOf(s, c, 0)
    IN IF k = -1 THEN <<s>> ELSE <<Slice(s, 0, k)>> \o Split(SliceFrom(s, k + 1), c)

LetterIndex(letters, c) == CHOOSE k \in DOMAIN letters : letters[k] = c

UpperChar(c) ==
    IF c \in Range(LowerLetters) THEN UpperLetters[LetterIndex(LowerLetters, c)] ELSE c

LowerChar(c) ==
    IF c \in Range(UpperLetters) THEN LowerLetters[LetterIndex(UpperLetters, c)] ELSE c

DigitSeq == <<"0", "1", "2", "3", "4", "5", "6", "7", "8", "9">>

RECURSIVE NatToStr(_)
NatToStr(n) ==
    IF n < 10 THEN <<DigitSeq[n + 1]>>
    ELSE NatToStr(n \div 10) \o <<DigitSeq[(n % 10) + 1]>>

\* str(n)
IntToStr(n) == IF n < 0 THEN <<"-">> \o NatToStr(-n) ELSE NatToStr(n)

\* int(v): ok is FALSE when int raises ValueError
StrToInt(v) ==
    LET s == Strip(v)
        neg == s # <<>> /\ s[1] = "-"
        body == IF s # <<>> /\ s[1] \in {"-", "+"} THEN Tail(s) ELSE s
        wellFormed ==
            /\ body # <<>>
            /\ \A k \in 1..Len(body) :
                  \/ IsDigit(body[k])
                  \/ /\ body[k] = "_"
                     /\ 1 < k /\ k < Len(body)
                     /\ IsDigit(body[k - 1]) /\ IsDigit(body[k + 1])
        DigitVal(c) == (CHOOSE k \in DOMAIN DigitSeq : DigitSeq[k] = c) - 1
        Val[k \in 0..Len(body)] ==
            IF k = 0 THEN 0
            ELSE IF body[k] = "_" THEN Val[k - 1]
            ELSE 10 * Val[k - 1] + DigitVal(body[k])
    IN IF wellFormed
       THEN [ok |-> TRUE, val |-> IF neg THEN -Val[Len(body)] ELSE Val[Len(body)]]
       ELSE [ok |-> FALSE, val |-> 0]

\* Path(p).name
PathName(p) ==
    LET parts == Split(p, "/")
        kept == SelectSeq(parts, LAMBDA c : c # <<>> /\ c # <<".">>)
    IN IF kept = <<>> THEN <<>> ELSE kept[Len(kept)]

\* the index of the last "." of name that starts a suffix, or -1
SuffixDot(name) ==
    LET dots == {k \in 0..(Len(name) - 1) : name[k + 1] = "."}
        last == IF dots = {} THEN -1 ELSE CHOOSE k \in dots : \A j \in dots : j <= k
    IN IF 0 < last /\ last < Len(name) - 1 THEN last ELSE -1

\* Path(p).stem
PathStem(p) ==
    LET name == PathName(p)
    IN IF SuffixDot(name) = -1 THEN name ELSE Slice(name, 0, SuffixDot(name))

\* Path(p).suffix
PathSuffix(p) ==
    LET name == PathName(p)
    IN IF SuffixDot(name) = -1 THEN <<>> ELSE SliceFrom(name, SuffixDot(name))

RECURSIVE LStripDots(_)
LStripDots(s) == IF s # <<>> /\ s[1] = "." THEN LStripDots(Tail(s)) ELSE s

OperationNames ==
    {<<"u", "p", "p", "e", "r">>, <<"l", "o", "w", "e", "r">>,
     <<"c", "a", "p", "i", "t", "a", "l", "i", "z", "e">>, <<"s", "t", "r", "i", "p">>,
     <<"i", "n", "c">>, <<"d", "e", "c">>,
     <<"f", "i", "l", "e", "n", "a", "m", "e">>, <<"b", "a", "s", "e", "n", "a", "m", "e">>,
     <<"e", "x", "t", "e", "n", "s", "i", "o", "n">>}

\* OPERATIONS[op](v): ok is FALSE when the operation raises
OPERATIONS(op, v) ==
    CASE op = <<"u", "p", "p", "e", "r">> ->
            [ok |-> TRUE, val |-> [k \in 1..Len(v) |-> UpperChar(v[k])]]
      [] op = <<"l", "o", "w", "e", "r">> ->
            [ok |-> TRUE, val |-> [k \in 1..Len(v) |-> LowerChar(v[k])]]
      [] op = <<"c", "a", "p", "i", "t", "a", "l", "i", "z", "e">> ->
            [ok |-> TRUE,
             val |-> [k \in 1..Len(v) |-> IF k = 1 THEN UpperChar(v[k]) ELSE LowerChar(v[k])]]
      [] op = <<"s", "t", "r", "i", "p">> -> [ok |-> TRUE, val |-> Strip(v)]
      [] op = <<"i", "n", "c">> ->
            IF StrToInt(v).ok THEN [ok |-> TRUE, val |-> IntToStr(StrToInt(v).val + 1)]
            ELSE [ok |-> FALSE, val |-> v]
      [] op = <<"d", "e", "c">> ->
            IF StrToInt(v).ok THEN [ok |-> TRUE, val |-> IntToStr(StrToInt(v).val - 1)]
            ELSE [ok |-> FALSE, val |-> v]
      [] op = <<"f", "i", "l", "e", "n", "a", "m", "e">> -> [ok |-> TRUE, val |-> PathName(v)]
      [] op = <<"b", "a", "s", "e", "n", "a", "m", "e">> -> [ok |-> TRUE, val |-> PathStem(v)]
      [] op = <<"e", "x", "t", "e", "n", "s", "i", "o", "n">> ->
            [ok |-> TRUE, val |-> LStripDots(PathSuffix(v))]

\* a fold that gives back what it has reached when an operation is unknown
\* or raises
apply_ops_partial(ops, k, value) ==
    LET upto[j \in 0 .. Len(ops)] ==
            IF j = 0 THEN [ok |-> TRUE, val |-> value]
            ELSE IF ~upto[j - 1].ok \/ ops[j] \notin OperationNames
                    \/ ~OPERATIONS(ops[j], upto[j - 1].val).ok
                 THEN [ok |-> FALSE, val |-> upto[j - 1].val]
                 ELSE [ok |-> TRUE, val |-> OPERATIONS(ops[j], upto[j - 1].val).val]
    IN [ok |-> TRUE, val |-> upto[Len(ops)].val]

\* the fold of the operations over the value, from the k-th on; ok is FALSE
\* when the placeholder is to be left unchanged
RECURSIVE apply_ops(_, _, _)
apply_ops(ops, k, value) ==
    IF k > Len(ops) THEN [ok |-> TRUE, val |-> value]
    ELSE IF ops[k] \notin OperationNames THEN [ok |-> FALSE, val |-> value]
    ELSE LET r == OPERATIONS(ops[k], value)
         IN IF r.ok THEN apply_ops(ops, k + 1, r.val) ELSE [ok |-> FALSE, val |-> value]

\* replacer(m), for the placeholder text m.group(0) with content m.group(1)
replacer(whole, placeholder, captures) ==
    LET parts == Split(placeholder, ".")
        field == parts[1]
        ops == Tail(parts)
    IN IF field \notin DOMAIN captures \/ captures[field] = NoneVal THEN whole
       ELSE LET r == apply_ops(ops, 1, captures[field])
            IN IF r.ok THEN r.val ELSE whole

\* re.sub(r":\[([^\]]+)\]", replacer, template)
RECURSIVE render_template(_, _)
render_template(template, captures) ==
    IF template = <<>> THEN <<>>
    ELSE LET close == IndexOf(template, "]", 2)
         IN IF /\ Slice(template, 0, 2) = <<":", "[">>
               /\ close > 2
            THEN replacer(Slice(template, 0, close + 1), Slice(template, 2, close), captures)
                     \o render_template(SliceFrom(template, close + 1), captures)
            ELSE <<template[1]>> \o render_template(Tail(template), captures)

\* ------------------------------------------------------------------------
\* Inputs
\* ------------------------------------------------------------------------
RECURSIVE SeqsUpTo(_, _)
SeqsUpTo(alphabet, n) ==
    IF n = 0 THEN {<<>>}
    ELSE LET shorter == SeqsUpTo(alphabet, n - 1)
         IN shorter \cup {Append(q, c) : q \in shorter, c \in alphabet}

\* every text of at most MaxLen characters over a word character that is no
\* digit, a digit and a space
Texts == SeqsUpTo({"a", "1", " "}, MaxLen)

P_empty == <<>>
P_a == <<"a">>
P_space == <<" ">>
P_x == <<":", "[", "x", "]">>
P_xopt == <<":", "[", "x", "?", "]">>
P_digit == <<":", "[", "x", ":", "d", "i", "g", "i", "t", "]">>
P_digitopt == <<":", "[", "x", ":", "d", "i", "g", "i", "t", "?", "]">>
P_x_a == <<":", "[", "x", "]", "a">>
P_word_digit ==
    <<":", "[", "x", ":", "w", "o", "r", "d", "]",
      ":", "[", "y", ":", "d", "i", "g", "i", "t", "]">>
P_digit_wordopt ==
    <<":", "[", "x", ":", "d", "i", "g", "i", "t", "]",
      ":", "[", "x", ":", "w", "o", "r", "d", "?", "]">>
P_x_x == <<":", "[", "x", "]", " ", ":", "[", "x", "]">>
P_wordopt_1 == <<":", "[", "x", ":", "w", "o", "r", "d", "?", "]", "1">>
P_a_any == <<"a", ":", "[", "x", "~", ".", "*", "]">>
P_regexopt_a == <<":", "[", "x", "~", "\\", "d", "+", "?", "]", "a">>
P_xopt_1 == <<":", "[", "x", "?", "]", "1">>
P_parenopt_a == <<":", "[", "x", ":", "(", ")", "?", "]", "a">>
P_num_ext ==
    <<":", "[", "x", ":", "n", "u", "m", "]",
      ":", "[", "e", "x", "t", ":", "w", "o", "r", "d", "?", "]">>
P_unknown == <<":", "[", "x", ":", "b", "a", "d", "]">>
P_emptymacro == <<":", "[", "x", ":", "]">>
\* :[x:M] for the six keys M of STRUCTURAL_MACROS
P_paren == <<":", "[", "x", ":", "(", ")", "]">>
P_bracket == <<":", "[", "x", ":", "[", "]", "]">>
P_brace == <<":", "[", "x", ":", "{", "}", "]">>
P_paren_inner == <<":", "[", "x", ":", "(", "_", ")", "]">>
P_bracket_inner == <<":", "[", "x", ":", "[", "_", "]", "]">>
P_brace_inner == <<":", "[", "x", ":", "{", "_", "}", "]">>

\* the patterns tried on every text
Patterns ==
    {P_empty, P_a, P_space, P_x, P_xopt, P_digit, P_digitopt, P_x_a,
     P_word_digit, P_digit_wordopt, P_x_x, P_wordopt_1, P_a_any,
     P_regexopt_a, P_xopt_1, P_parenopt_a, P_unknown}

\* texts tried with one pattern: the examples of the tests, and one text
\* for each pattern that names a macro
Examples ==
    {<<<<"-", "1", ".", "4", "k">>, P_num_ext>>,
     <<<<"-", "1", ".", "4", "e", "-", "3">>, P_num_ext>>,
     <<<<"(", "a", ")", "a">>, P_parenopt_a>>,
     <<<<"(", "1", ")", "1">>, P_parenopt_a>>,
     <<<<"1", "\n", "a">>, P_digit>>,
     <<<<"a">>, P_emptymacro>>,
     <<<<"a", "(", "1", ")">>, P_paren>>,
     <<<<"a", "(", "1", ")">>, P_paren_inner>>,
     <<<<"[", "a", "]">>, P_bracket>>,
     <<<<"[", "a", "]">>, P_bracket_inner>>,
     <<<<"{", "a", "}">>, P_brace>>,
     <<<<"{", "a", "}">>, P_brace_inner>>}

\* replacement: None (query), "", "1", ":[x]a", ":[x.upper]"
Replacements ==
    {NoneVal, <<>>, <<"1">>, <<":", "[", "x", "]", "a">>,
     <<":", "[", "x", ".", "u", "p", "p", "e", "r", "]">>}

\* ------------------------------------------------------------------------
\* Driver: pycomby and pycomby_single
\* ------------------------------------------------------------------------
VARIABLES
    entry,          \* the function called: "pycomby", "pycomby_single", "main",
                    \* "render_template" or "match_balanced"
    text,           \* its arguments
    pattern,
    replacement,
    pc,             \* "call", "loop" (line 39), "matched" (line 44), "done", "error";
                    \* "main" and "exit" in main, "scan" in the loop of match_balanced
    tokens,
    result_text,
    offset,
    all_captures,
    m,              \* what the last call of match_first returned
    ret,            \* the value returned
    searched,       \* the text the last call of match_first was given
    calls,          \* the components invoked so far
    last_span,      \* the absolute span of the last match found, <<-1, -1>> before it
    captures,       \* the bindings render_template is called with directly
    parsed,         \* the command line main has parsed: --first and the replacement
    exit_code,      \* the code main exited with, -1 before it
    scan            \* the frame of match_balanced when it is called directly

vars ==
    <<entry, text, pattern, replacement, pc, tokens, result_text, offset,
      all_captures, m, ret, searched, calls, last_span, captures,
      parsed, exit_code, scan>>

NoMatch == [ok |-> FALSE, start |-> 0, end |-> 0, caps |-> EmptyCaptures, segs |-> <<>>]

\* a returned value: a list of captures, a dict of captures or a string
NoReturn == [kind |-> "none", list |-> <<>>, dict |-> EmptyCaptures, str |-> <<>>]
ReturnList(l) == [kind |-> "list", list |-> l, dict |-> EmptyCaptures, str |-> <<>>]
ReturnDict(d) == [kind |-> "dict", list |-> <<>>, dict |-> d, str |-> <<>>]
ReturnStr(s) == [kind |-> "str", list |-> <<>>, dict |-> EmptyCaptures, str |-> s]
\* the call raised the error e instead of returning
Raised(e) == [kind |-> "raise", list |-> <<>>, dict |-> EmptyCaptures, str |-> <<e>>]

\* the frame of match_balanced: its arguments, its locals (start is -1 before
\* line 399, in_string is "" for None), what it returns (new_i = -1 for
\* (None, None)), and the positions it has examined as structural delimiters
NoScan ==
    [open_ch |-> "", close_ch |-> "", inner_only |-> FALSE, start |-> -1, i |-> 0,
     depth |-> 0, in_string |-> "", in_line_comment |-> FALSE,
     in_block_comment |-> FALSE, new_i |-> -1, chunk |-> <<>>, normal |-> {}]

\* no command line: the function is called directly
NoArgs == [first |-> FALSE, replacement |-> NoneVal]

Init ==
    /\ entry \in {"pycomby", "pycomby_single"}
    /\ \E tp \in (Texts \X Patterns) \cup Examples :
          /\ text = tp[1]
          /\ pattern = tp[2]
    /\ replacement \in Replacements
    /\ pc = "call"
    /\ tokens = <<>>
    /\ result_text = <<>>
    /\ offset = 0
    /\ all_captures = <<>>
    /\ m = NoMatch
    /\ ret = NoReturn
    /\ searched = <<>>
    /\ calls = {}
    /\ last_span = <<-1, -1>>
    /\ captures = EmptyCaptures
    /\ parsed = NoArgs
    /\ exit_code = -1
    /\ scan = NoScan

\* a driver without the empty-pattern return
IsEmptyPattern_never(toks) == FALSE

\* `if not tokens`
IsEmptyPattern(toks) == toks = <<>>

\* pycomby, lines 25-36: compile, the empty-pattern return, the loop's variables
Pycomby ==
    /\ pc = "call"
    /\ entry = "pycomby"
    /\ \E c \in {compile_pattern(pattern)} :
          /\ tokens' = c.tokens
          /\ IF c.err # ""
             THEN /\ pc' = "error"
                  /\ ret' = Raised(c.err)
                  /\ UNCHANGED result_text
             ELSE IF IsEmptyPattern(c.tokens)
             THEN /\ pc' = "done"
                  /\ ret' = IF replacement = NoneVal THEN ReturnList(<<>>) ELSE ReturnStr(text)
                  /\ UNCHANGED result_text
             ELSE /\ pc' = "loop"
                  /\ result_text' = text
                  /\ UNCHANGED ret
    /\ offset' = 0
    /\ all_captures' = <<>>
    /\ UNCHANGED <<entry, text, pattern, replacement, m, searched, calls, last_span>>
    /\ UNCHANGED <<captures, parsed, exit_code, scan>>

\* pycomby, lines 39-41 and 61-64: search result_text[offset:]; with no match
\* leave the loop and return
PycombySearch ==
    /\ pc = "loop"
    /\ searched' = SliceFrom(result_text, offset)
    /\ \E r \in {match_first(SliceFrom(result_text, offset), tokens)} :
          /\ m' = r
          /\ IF r.ok
             THEN /\ pc' = "matched"
                  /\ UNCHANGED ret
             ELSE /\ pc' = "done"
                  /\ ret' = IF replacement = NoneVal THEN ReturnList(all_captures)
                            ELSE ReturnStr(result_text)
    /\ calls' = calls \cup {"match_first"}
    /\ UNCHANGED <<entry, text, pattern, replacement, tokens, result_text, offset,
                   all_captures, last_span>>
    /\ UNCHANGED <<captures, parsed, exit_code, scan>>

match_start == offset + m.start
match_end == offset + m.end

\* the offset after a match without the zero-width guard
next_offset_unguarded(end_abs, start_in_substring, end_in_substring) == end_abs

\* the offset after a match in query mode, lines 50-53
next_offset(end_abs, start_in_substring, end_in_substring) ==
    IF end_in_substring = start_in_substring THEN end_abs + 1 ELSE end_abs

\* the loop is followed while offset and len(result_text) are within
\* len(text) + MaxGrow
WithinBounds(o, r) == o <= Len(text) + MaxGrow /\ Len(r) <= Len(text) + MaxGrow

\* pycomby, lines 44-53: query mode, append the captures and move the offset
PycombyAppend ==
    /\ pc = "matched"
    /\ replacement = NoneVal
    /\ WithinBounds(next_offset(match_end, m.start, m.end), result_text)
    /\ all_captures' = Append(all_captures, m.caps)
    /\ offset' = next_offset(match_end, m.start, m.end)
    /\ last_span' = <<match_start, match_end>>
    /\ pc' = "loop"
    /\ UNCHANGED <<entry, text, pattern, replacement, tokens, result_text, m, ret,
                   searched, calls>>
    /\ UNCHANGED <<captures, parsed, exit_code, scan>>

\* result_text[:match_start] + rendered + result_text[match_end:]
splice(r, s, e, rendered) == Slice(r, 0, s) \o rendered \o SliceFrom(r, e)

\* an offset left at the start of the replacement
replace_offset_at_start(s, rendered) == s

\* the offset after a replacement, line 59
replace_offset(s, rendered) == s + Len(rendered)

\* pycomby, lines 44-45 and 55-59: replace mode, splice the rendered template
PycombyReplace ==
    /\ pc = "matched"
    /\ replacement # NoneVal
    /\ \E rendered \in {render_template(replacement, m.caps)} :
          /\ WithinBounds(replace_offset(match_start, rendered),
                          splice(result_text, match_start, match_end, rendered))
          /\ result_text' = splice(result_text, match_start, match_end, rendered)
          /\ offset' = replace_offset(match_start, rendered)
    /\ calls' = calls \cup {"render_template"}
    /\ last_span' = <<match_start, match_end>>
    /\ pc' = "loop"
    /\ UNCHANGED <<entry, text, pattern, replacement, tokens, all_captures, m, ret,
                   searched>>
    /\ UNCHANGED <<captures, parsed, exit_code, scan>>

\* pycomby_single, lines 86-94: the match, and the value returned
single_return(r) ==
    \E caps \in {IF r.ok THEN r.caps ELSE EmptyCaptures} :
       IF replacement = NoneVal
       THEN /\ ret' = ReturnDict(caps)
            /\ calls' = {"match_first"}
       ELSE /\ \E rendered \in {render_template(replacement, caps)} :
                  ret' = ReturnStr(splice(text, r.start, r.end, rendered))
            /\ calls' = {"match_first", "render_template"}

\* pycomby_single, lines 77-94
PycombySingle ==
    /\ pc = "call"
    /\ entry = "pycomby_single"
    /\ \E c \in {compile_pattern(pattern)} :
          /\ tokens' = c.tokens
          /\ IF c.err # ""
             THEN /\ pc' = "error"
                  /\ ret' = Raised(c.err)
                  /\ UNCHANGED <<m, searched, calls, last_span>>
             ELSE IF IsEmptyPattern(c.tokens)
             THEN /\ pc' = "done"
                  /\ ret' = IF replacement = NoneVal THEN ReturnDict(EmptyCaptures)
                            ELSE ReturnStr(text)
                  /\ UNCHANGED <<m, searched, calls, last_span>>
             ELSE /\ pc' = "done"
                  /\ searched' = text
                  /\ \E r \in {match_first(text, c.tokens)} :
                        /\ m' = r
                        /\ last_span' = IF r.ok THEN <<r.start, r.end>> ELSE <<-1, -1>>
                        /\ single_return(r)
    /\ UNCHANGED <<entry, text, pattern, replacement, result_text, offset, all_captures>>
    /\ UNCHANGED <<captures, parsed, exit_code, scan>>

Next == Pycomby \/ PycombySearch \/ PycombyAppend \/ PycombyReplace \/ PycombySingle

Spec == Init /\ [][Next]_vars

\* pycomby alone, on the texts shorter than MaxLen. The program is
\* sequential: whatever step it can take next, it takes
FindAllInit == Init /\ entry = "pycomby" /\ Len(text) < MaxLen

FindAllNext == Pycomby \/ PycombySearch \/ PycombyAppend \/ PycombyReplace

FindAllSpec == FindAllInit /\ [][FindAllNext]_vars /\ WF_vars(FindAllNext)

\* ------------------------------------------------------------------------
\* render_template called directly
\* ------------------------------------------------------------------------
\* a template is at most MaxPieces pieces: a literal, or a placeholder
MaxPieces == 2

Pieces ==
    {<<"a">>,
     <<":", "[", "x", "]">>,
     <<":", "[", "y", "]">>,
     <<":", "[", "x", ".", "u", "p", "p", "e", "r", "]">>,
     <<":", "[", "x", ".", "i", "n", "c", "]">>,
     <<":", "[", "x", ".", "i", "n", "v", "a", "l", "i", "d", "_", "o", "p", "]">>,
     <<":", "[", "x", ".", "u", "p", "p", "e", "r", ".", "i", "n", "c", "]">>,
     <<":", "[", "x", ".", "i", "n", "c", ".", "i", "n", "c", "]">>,
     <<":", "[", "x", ".", "s", "t", "r", "i", "p", ".", "i", "n", "v", "a", "l", "i", "d", "_", "o", "p", "]">>,
     <<":", "[", "x", ".", "e", "x", "t", "e", "n", "s", "i", "o", "n", ".", "d", "e", "c", "]">>}

RECURSIVE Concat(_)
Concat(ps) == IF ps = <<>> THEN <<>> ELSE Head(ps) \o Concat(Tail(ps))

PieceSeqs == SeqsUpTo(Pieces, MaxPieces)

Templates == {Concat(ps) : ps \in PieceSeqs}

\* the bindings: nothing bound, or x bound to None or to a string
Bindings ==
    {EmptyCaptures} \cup
    {Bind(EmptyCaptures, <<"x">>, v) :
        v \in {NoneVal, <<"a">>, <<"1">>, <<"-", "1">>, <<" ", "9">>,
               <<"a", ".", "1">>, <<"b", " ">>}}

RenderInit ==
    /\ entry = "render_template"
    /\ replacement \in Templates
    /\ captures \in Bindings
    /\ text = <<>>
    /\ pattern = <<>>
    /\ pc = "call"
    /\ tokens = <<>>
    /\ result_text = <<>>
    /\ offset = 0
    /\ all_captures = <<>>
    /\ m = NoMatch
    /\ ret = NoReturn
    /\ searched = <<>>
    /\ calls = {}
    /\ last_span = <<-1, -1>>
    /\ parsed = NoArgs
    /\ exit_code = -1
    /\ scan = NoScan

\* render_template(replacement, captures), lines 471-498
Render ==
    /\ pc = "call"
    /\ entry = "render_template"
    /\ \E rendered \in {render_template(replacement, captures)} :
          ret' = ReturnStr(rendered)
    /\ pc' = "done"
    /\ calls' = {"render_template"}
    /\ UNCHANGED <<entry, text, pattern, replacement, tokens, result_text, offset,
                   all_captures, m, searched, last_span, captures, parsed, exit_code,
                   scan>>

RenderNext == Render

RenderSpec == RenderInit /\ [][RenderNext]_vars

\* ------------------------------------------------------------------------
\* The command line: main of pycomby_cli
\* ------------------------------------------------------------------------
\* main has read the input, the pattern and the replacement (None when it is
\* not given) without error
CliInit ==
    /\ entry = "main"
    /\ \E tp \in (Texts \X Patterns) \cup Examples :
          /\ text = tp[1]
          /\ pattern = tp[2]
    /\ parsed \in [first : BOOLEAN, replacement : Replacements]
    /\ replacement = NoneVal
    /\ pc = "main"
    /\ tokens = <<>>
    /\ result_text = <<>>
    /\ offset = 0
    /\ all_captures = <<>>
    /\ m = NoMatch
    /\ ret = NoReturn
    /\ searched = <<>>
    /\ calls = {}
    /\ last_span = <<-1, -1>>
    /\ captures = EmptyCaptures
    /\ exit_code = -1
    /\ scan = NoScan

\* main, lines 101-112 and 118: the empty pattern exits with 2; else
\* match_func is chosen by --first and called with the replacement when
\* `if replacement:` holds, without it otherwise
MainCall ==
    /\ pc = "main"
    /\ entry = "main"
    /\ IF pattern = <<>>
       THEN /\ pc' = "exit"
            /\ exit_code' = 2
            /\ UNCHANGED <<entry, replacement>>
       ELSE /\ pc' = "call"
            /\ entry' = IF parsed.first THEN "pycomby_single" ELSE "pycomby"
            /\ replacement' = IF parsed.replacement \notin {NoneVal, <<>>}
                              THEN parsed.replacement ELSE NoneVal
            /\ UNCHANGED exit_code
    /\ UNCHANGED <<text, pattern, tokens, result_text, offset, all_captures, m, ret,
                   searched, calls, last_span, captures, parsed, scan>>

\* the exit code main computes from what match_func returned, lines 110-137
exit_code_of(result) ==
    IF replacement # NoneVal
    THEN IF result.kind = "str"
         THEN IF result.str # text THEN 0 ELSE 1
         ELSE 1
    ELSE IF parsed.first
         THEN IF result.dict # EmptyCaptures THEN 0 ELSE 1
         ELSE IF result.list # <<>> THEN 0 ELSE 1

\* main, lines 110-143: match_func has returned or raised; exit
MainExit ==
    /\ pc \in {"done", "error"}
    /\ exit_code = -1
    /\ pc' = "exit"
    /\ exit_code' = IF pc = "error" THEN 2 ELSE exit_code_of(ret)
    /\ UNCHANGED <<entry, text, pattern, replacement, tokens, result_text, offset,
                   all_captures, m, ret, searched, calls, last_span, captures, parsed,
                   scan>>

CliNext ==
    \/ MainCall
    \/ Pycomby \/ PycombySearch \/ PycombyAppend \/ PycombyReplace \/ PycombySingle
    \/ MainExit

CliSpec == CliInit /\ [][CliNext]_vars

\* ------------------------------------------------------------------------
\* match_balanced called directly, one step for each pass of its loop
\* ------------------------------------------------------------------------
\* a text is an open parenthesis and at most MaxScan pieces after it
MaxScan == 4

ScanPieces ==
    {<<"(">>, <<")">>, <<"\"">>, <<"\\">>, <<"/", "/">>, <<"/", "*">>, <<"*", "/">>,
     <<"\n">>}

ScanTexts == {<<"(">> \o Concat(ps) : ps \in SeqsUpTo(ScanPieces, MaxScan)}

\* the calls: the index i and the macro that gives open_ch, close_ch, inner_only
ScanCalls == {<<0, <<"(", ")">>>>, <<0, <<"(", "_", ")">>>>, <<1, <<"(", ")">>>>}

ScanInit ==
    /\ entry = "match_balanced"
    /\ text \in ScanTexts
    /\ \E call \in ScanCalls :
          scan = [NoScan EXCEPT !.i = call[1],
                                !.open_ch = STRUCTURAL_MACROS[call[2]].open_ch,
                                !.close_ch = STRUCTURAL_MACROS[call[2]].close_ch,
                                !.inner_only = STRUCTURAL_MACROS[call[2]].inner_only]
    /\ pattern = <<>>
    /\ replacement = NoneVal
    /\ pc = "call"
    /\ tokens = <<>>
    /\ result_text = <<>>
    /\ offset = 0
    /\ all_captures = <<>>
    /\ m = NoMatch
    /\ ret = NoReturn
    /\ searched = <<>>
    /\ calls = {}
    /\ last_span = <<-1, -1>>
    /\ captures = EmptyCaptures
    /\ parsed = NoArgs
    /\ exit_code = -1

\* a test that lets the scan start on any character
OpensAt_unchecked(t, i, open_ch) == i < Len(t)

\* the negation of `i >= n or text[i] != open_ch`, line 396
OpensAt(t, i, open_ch) == i < Len(t) /\ t[i + 1] = open_ch

\* a string state in which the delimiters are counted
in_string_step_counting(sc, c) ==
    IF c = "\\" THEN [sc EXCEPT !.i = @ + 2]
    ELSE IF c = sc.in_string THEN [sc EXCEPT !.in_string = "", !.i = @ + 1]
    ELSE [sc EXCEPT !.i = @ + 1,
                    !.depth = IF c = sc.open_ch THEN @ + 1
                              ELSE IF c = sc.close_ch THEN @ - 1 ELSE @]

\* lines 412-420: inside a string
in_string_step(sc, c) ==
    IF c = "\\" THEN [sc EXCEPT !.i = @ + 2]
    ELSE IF c = sc.in_string THEN [sc EXCEPT !.in_string = "", !.i = @ + 1]
    ELSE [sc EXCEPT !.i = @ + 1]

\* lines 422-426: inside a line comment
line_comment_step(sc, c) ==
    [sc EXCEPT !.in_line_comment = (c # "\n"), !.i = @ + 1]

\* lines 428-434: inside a block comment
block_comment_step(sc, c, nxt) ==
    IF c = "*" /\ nxt = "/" THEN [sc EXCEPT !.in_block_comment = FALSE, !.i = @ + 2]
    ELSE [sc EXCEPT !.i = @ + 1]

\* lines 436-462: the normal state: enter a comment or a string, or handle a
\* structural delimiter; on depth 0 return (the index stays on the delimiter)
normal_step(sc, t, c, nxt) ==
    IF c = "/" /\ nxt = "/" THEN [sc EXCEPT !.in_line_comment = TRUE, !.i = @ + 2]
    ELSE IF c = "/" /\ nxt = "*" THEN [sc EXCEPT !.in_block_comment = TRUE, !.i = @ + 2]
    ELSE IF c = "\"" \/ c = "'" THEN [sc EXCEPT !.in_string = c, !.i = @ + 1]
    ELSE IF c = sc.open_ch
         THEN [sc EXCEPT !.depth = @ + 1, !.i = @ + 1, !.normal = @ \cup {sc.i}]
    ELSE IF c = sc.close_ch
         THEN IF sc.depth - 1 = 0
              THEN [sc EXCEPT !.depth = 0, !.normal = @ \cup {sc.i},
                              !.new_i = sc.i + 1,
                              !.chunk = IF sc.inner_only
                                        THEN Slice(t, sc.start + 1, sc.i)
                                        ELSE Slice(t, sc.start, sc.i + 1)]
              ELSE [sc EXCEPT !.depth = @ - 1, !.i = @ + 1, !.normal = @ \cup {sc.i}]
    ELSE [sc EXCEPT !.i = @ + 1, !.normal = @ \cup {sc.i}]

ScanFrame ==
    UNCHANGED <<entry, text, pattern, replacement, tokens, result_text, offset,
                all_captures, m, ret, searched, calls, last_span, captures, parsed,
                exit_code>>

\* lines 395-405: the test on text[i], and the locals before the loop
ScanEnter ==
    /\ pc = "call"
    /\ entry = "match_balanced"
    /\ IF OpensAt(text, scan.i, scan.open_ch)
       THEN /\ scan' = [scan EXCEPT !.depth = 1, !.start = scan.i, !.i = scan.i + 1]
            /\ pc' = "scan"
       ELSE /\ pc' = "done"
            /\ UNCHANGED scan
    /\ ScanFrame

\* the character at i and the one after it, "" at the end of the text
ScanC == text[scan.i + 1]
ScanNxt == IF scan.i + 1 < Len(text) THEN text[scan.i + 2] ELSE ""

ScanInString ==
    /\ pc = "scan"
    /\ scan.i < Len(text)
    /\ scan.in_string # ""
    /\ scan' = in_string_step(scan, ScanC)
    /\ pc' = "scan"
    /\ ScanFrame

ScanInLineComment ==
    /\ pc = "scan"
    /\ scan.i < Len(text)
    /\ scan.in_string = ""
    /\ scan.in_line_comment
    /\ scan' = line_comment_step(scan, ScanC)
    /\ pc' = "scan"
    /\ ScanFrame

ScanInBlockComment ==
    /\ pc = "scan"
    /\ scan.i < Len(text)
    /\ scan.in_string = ""
    /\ ~scan.in_line_comment
    /\ scan.in_block_comment
    /\ scan' = block_comment_step(scan, ScanC, ScanNxt)
    /\ pc' = "scan"
    /\ ScanFrame

ScanNormal ==
    /\ pc = "scan"
    /\ scan.i < Len(text)
    /\ scan.in_string = ""
    /\ ~scan.in_line_comment
    /\ ~scan.in_block_comment
    /\ \E sc \in {normal_step(scan, text, ScanC, ScanNxt)} :
          /\ scan' = sc
          /\ pc' = IF sc.new_i # -1 THEN "done" ELSE "scan"
    /\ ScanFrame

\* line 464: the loop ends at the end of the text, return (None, None)
ScanEof ==
    /\ pc = "scan"
    /\ scan.i >= Len(text)
    /\ pc' = "done"
    /\ UNCHANGED scan
    /\ ScanFrame

ScanNext ==
    \/ ScanEnter
    \/ ScanInString \/ ScanInLineComment \/ ScanInBlockComment \/ ScanNormal
    \/ ScanEof

ScanSpec == ScanInit /\ [][ScanNext]_vars

\* a loop iteration the model does not follow: its offset or result_text
\* would pass the bound
OutOfBounds ==
    /\ pc = "matched"
    /\ IF replacement = NoneVal
       THEN ~WithinBounds(next_offset(match_end, m.start, m.end), result_text)
       ELSE \E rendered \in {render_template(replacement, m.caps)} :
               ~WithinBounds(replace_offset(match_start, rendered),
                             splice(result_text, match_start, match_end, rendered))

\* a call of match_first has returned
Searched == "match_first" \in calls

\* match_from(searched, tokens, ti, i, {}) succeeds
RestOk(ti, i) == match_from(searched, tokens, ti, i, EmptyCaptures, <<>>).ok

\* ------------------------------------------------------------------------
\* Properties
\* ------------------------------------------------------------------------

C2_FindAllTerminates == <>(pc \in {"done", "error"} \/ OutOfBounds)

\* C3: in replace-all mode each iteration splices the rendered template over
\* exactly the absolute match span of the text searched from the cursor and
\* moves the cursor to match start + len(rendered); no step changes the
\* result before the cursor; the text after a match is carried over unchanged;
\* the value returned is the result, and is the input when nothing matched.
C3_ReplaceIteration ==
    (pc = "matched" /\ replacement # NoneVal /\ pc' = "loop") =>
        \E rendered \in {render_template(replacement, m.caps)} :
           /\ searched = SliceFrom(result_text, offset)
           /\ offset <= match_start
           /\ match_start <= match_end
           /\ match_end <= Len(result_text)
           /\ Slice(result_text', 0, match_start) = Slice(result_text, 0, match_start)
           /\ Slice(result_text', match_start, offset') = rendered
           /\ SliceFrom(result_text', offset') = SliceFrom(result_text, match_end)
           /\ offset' = match_start + Len(rendered)

C3_PrefixKept ==
    (entry = "pycomby" /\ replacement # NoneVal /\ pc \in {"loop", "matched"}) =>
        Slice(result_text', 0, offset) = Slice(result_text, 0, offset)

C3_Returned ==
    (entry = "pycomby" /\ replacement # NoneVal /\ pc = "done" /\ ~IsEmptyPattern(tokens)) =>
        /\ ret = ReturnStr(result_text)
        /\ last_span = <<-1, -1>> => ret = ReturnStr(text)

\* C3: replace-all mode splices each rendered template over exactly the match
\* span, moves the cursor to match start + len(rendered), never changes the
\* result before the cursor, and returns the result (the input if no match).
C3_ReplaceAllFrame ==
    /\ [][C3_ReplaceIteration]_vars
    /\ [][C3_PrefixKept]_vars
    /\ []C3_Returned

\* a second match found after a replacement that changed the text
C3_Witness ==
    /\ pc = "matched"
    /\ replacement # NoneVal
    /\ last_span # <<-1, -1>>
    /\ result_text # text
    /\ m.start > 0

\* C4 as stated: in query-all mode each match is searched in text[offset:],
\* its captures are appended, the cursor moves to the match's absolute end
\* and strictly increases, a match starts at or after the end of the match
\* before it, and the list returned is the list of the captures.
C4_QueryIteration(cursor_after) ==
    (pc = "matched" /\ replacement = NoneVal /\ pc' = "loop") =>
        /\ searched = SliceFrom(text, offset)
        /\ result_text = text
        /\ all_captures' = Append(all_captures, m.caps)
        /\ last_span[2] <= match_start
        /\ match_start <= match_end
        /\ offset' = cursor_after
        /\ offset' > offset

C4_Returned ==
    (entry = "pycomby" /\ replacement = NoneVal /\ pc = "done") =>
        ret = ReturnList(all_captures)

\* C4 as stated: query-all mode appends one bindings map per match, left to
\* right, the cursor moves to the match's absolute end and strictly increases.
C4_CursorAtMatchEnd ==
    /\ [][C4_QueryIteration(match_end)]_vars
    /\ []C4_Returned

\* C4 as amended: the cursor moves to the match's absolute end, and one
\* character further when the match is zero-width.
C4_QueryAllOrdered ==
    /\ [][C4_QueryIteration(IF m.end = m.start THEN match_end + 1 ELSE match_end)]_vars
    /\ []C4_Returned

\* a second match found in query mode, the first one zero-width
C4_Witness ==
    /\ pc = "matched"
    /\ replacement = NoneVal
    /\ Len(all_captures) >= 1
    /\ last_span[1] = last_span[2]
    /\ offset = last_span[2] + 1

\* C5: match_first returns the match of the smallest anchor in 0..len(text)
\* at which match_from succeeds, and fails only if it succeeds at none.
C5_FirstAnchor ==
    Searched =>
        IF m.ok
        THEN /\ m.start \in 0..Len(searched)
             /\ RestOk(0, m.start)
             /\ \A a \in 0..(m.start - 1) : ~RestOk(0, a)
             /\ \E r \in {match_from(searched, tokens, 0, m.start, EmptyCaptures, <<>>)} :
                   m.end = r.end /\ m.caps = r.caps
        ELSE \A a \in 0..Len(searched) : ~RestOk(0, a)

\* a match found at the third anchor, after the first two failed
C5_Witness ==
    /\ Searched
    /\ m.ok
    /\ m.start = 2
    /\ m.end > m.start

\* C6: with a pattern that compiles to no token, pycomby returns [] (query)
\* or the text (replace), pycomby_single {} or the text, and neither
\* match_first nor render_template is invoked.
C6_EmptyPattern ==
    (pc \notin {"call", "error"} /\ tokens = <<>>) =>
        /\ pc = "done"
        /\ calls = {}
        /\ ret = IF replacement # NoneVal THEN ReturnStr(text)
                 ELSE IF entry = "pycomby" THEN ReturnList(<<>>)
                 ELSE ReturnDict(EmptyCaptures)

\* the empty pattern on a non-empty text, in replace mode
C6_Witness ==
    /\ pc = "done"
    /\ pattern = <<>>
    /\ text # <<>>
    /\ replacement \notin {NoneVal, <<>>}
    /\ ret = ReturnStr(text)

\* the k-th token is a hole with a regex macro or a user regex
ConstrainedAt(k) ==
    /\ tokens[k].kind = "hole"
    /\ tokens[k].macro \notin DOMAIN STRUCTURAL_MACROS
    /\ IsConstrained(tokens[k])

\* the k-th token is a plain wildcard hole
WildcardAt(k) ==
    /\ tokens[k].kind = "hole"
    /\ tokens[k].macro = <<>>
    /\ tokens[k].regex = <<>>

\* the occurrences of a hole name in the pattern
Occurrences(name) ==
    {k \in 1..Len(tokens) : tokens[k].kind = "hole" /\ tokens[k].name = name}

Last(S) == CHOOSE k \in S : \A j \in S : j <= k

\* the text the k-th token of the last match captured
Captured(k) ==
    IF tokens[k].macro \in DOMAIN STRUCTURAL_MACROS
    THEN LET sm == STRUCTURAL_MACROS[tokens[k].macro]
         IN match_balanced(searched, m.segs[k].s, sm.open_ch, sm.close_ch,
                           sm.inner_only).chunk
    ELSE Slice(searched, m.segs[k].s, m.segs[k].e)

\* the hole names of the pattern
Names == {tokens[k].name : k \in {j \in 1..Len(tokens) : tokens[j].kind = "hole"}} \ {<<>>}

C7_LongestFirst ==
    (Searched /\ m.ok) =>
        \A k \in 1..Len(tokens) :
           (ConstrainedAt(k) /\ ~m.segs[k].skipped) =>
               /\ m.segs[k].e > m.segs[k].s
               /\ m.segs[k].e <= Len(searched)
               /\ Constraint(tokens[k], Captured(k))
               /\ RestOk(k, m.segs[k].e)
               /\ \A e2 \in (m.segs[k].e + 1)..Len(searched) :
                     ~(/\ Constraint(tokens[k], Slice(searched, m.segs[k].s, e2))
                       /\ RestOk(k, e2))
               /\ (tokens[k].name # <<>> /\ k = Last(Occurrences(tokens[k].name))) =>
                     m.caps[tokens[k].name] = Captured(k)

C7_Examples ==
    (Searched /\ pattern = P_num_ext) =>
        /\ searched = <<"-", "1", ".", "4", "k">> =>
              /\ m.ok
              /\ m.caps = Bind(Bind(EmptyCaptures, <<"x">>, <<"-", "1", ".", "4">>),
                               <<"e", "x", "t">>, <<"k">>)
        /\ searched = <<"-", "1", ".", "4", "e", "-", "3">> =>
              /\ m.ok
              /\ m.caps = Bind(Bind(EmptyCaptures, <<"x">>, searched),
                               <<"e", "x", "t">>, NoneVal)

\* C7: a constrained hole (regex macro or user regex) never takes the empty
\* slice and takes the longest slice from its position that satisfies the
\* constraint and from whose end the rest of the tokens matches; with
\* :[x:num]:[ext:word?], x is -1.4 and ext is k on -1.4k, and x is all of
\* -1.4e-3.
C7_ConstrainedGreedy == C7_LongestFirst /\ C7_Examples

\* a constrained hole that took less than a longer slice passing its
\* constraint, because the rest of the tokens did not match after that one
C7_Witness ==
    /\ Searched
    /\ m.ok
    /\ \E k \in 1..Len(tokens) :
          /\ ConstrainedAt(k)
          /\ ~m.segs[k].skipped
          /\ \E e2 \in (m.segs[k].e + 1)..Len(searched) :
                Constraint(tokens[k], Slice(searched, m.segs[k].s, e2))

\* C8: a plain wildcard hole takes the shortest slice from its position
\* (the empty one included) from whose end the rest of the tokens matches.
C8_WildcardNonGreedy ==
    (Searched /\ m.ok) =>
        \A k \in 1..Len(tokens) :
           (WildcardAt(k) /\ ~m.segs[k].skipped) =>
               /\ m.segs[k].s <= m.segs[k].e
               /\ m.segs[k].e <= Len(searched)
               /\ RestOk(k, m.segs[k].e)
               /\ \A e2 \in m.segs[k].s..(m.segs[k].e - 1) : ~RestOk(k, e2)
               /\ (tokens[k].name # <<>> /\ k = Last(Occurrences(tokens[k].name))) =>
                     m.caps[tokens[k].name] = Captured(k)

\* a wildcard hole that had to take characters, followed by another token
C8_Witness ==
    /\ Searched
    /\ m.ok
    /\ \E k \in 1..(Len(tokens) - 1) :
          /\ WildcardAt(k)
          /\ ~m.segs[k].skipped
          /\ m.segs[k].e > m.segs[k].s

\* the ends of the consuming alternatives of a hole at position i
ConsumingEnds(hole, t, i) ==
    IF hole.macro \in DOMAIN STRUCTURAL_MACROS
    THEN LET sm == STRUCTURAL_MACROS[hole.macro]
             b == match_balanced(t, i, sm.open_ch, sm.close_ch, sm.inner_only)
         IN IF b.new_i = -1 THEN {} ELSE {b.new_i}
    ELSE {e \in i..Len(t) :
            /\ IsConstrained(hole) => e > i
            /\ Constraint(hole, Slice(t, i, e))}

\* C9: at an optional hole of any kind, at any position: when a consuming
\* alternative leads to a match of the rest the hole is consumed, and
\* otherwise the matcher does what it does on the rest of the tokens at the
\* same position, with the hole's name bound to none if it was not bound.
C9_OptionalSkip ==
    Searched =>
        \A ti \in 0..(Len(tokens) - 1), i \in 0..Len(searched) :
           (tokens[ti + 1].kind = "hole" /\ tokens[ti + 1].optional) =>
               \E r \in {match_from(searched, tokens, ti, i, EmptyCaptures, <<>>)} :
                  IF \E e \in ConsumingEnds(tokens[ti + 1], searched, i) : RestOk(ti + 1, e)
                  THEN r.ok /\ ~r.segs[1].skipped
                  ELSE \E skip \in {match_from(searched, tokens, ti + 1, i,
                                               skip_bind(EmptyCaptures, tokens[ti + 1].name),
                                               <<Seg(i, i, TRUE)>>)} :
                          /\ r.ok = skip.ok
                          /\ r.ok => r = skip

\* C10 as stated: the value of a name is the text matched at its last
\* occurrence in the pattern (nothing, when that occurrence was skipped).
C10_LastOccurrence ==
    (Searched /\ m.ok) =>
        \A name \in Names :
           m.caps[name] = IF m.segs[Last(Occurrences(name))].skipped
                          THEN NoneVal
                          ELSE Captured(Last(Occurrences(name)))

\* the occurrences of a name that the last match did not skip
Consumed(name) == {k \in Occurrences(name) : ~m.segs[k].skipped}

\* C10 as amended: the value of a name is the text matched at its last
\* occurrence that was not skipped, and none when every occurrence was
\* skipped.
C10_LastConsumedOccurrence ==
    (Searched /\ m.ok) =>
        /\ DOMAIN m.caps = Names
        /\ \A name \in Names :
              m.caps[name] = IF Consumed(name) = {}
                             THEN NoneVal
                             ELSE Captured(Last(Consumed(name)))

\* a name with two occurrences: the first took text, the last was skipped
C10_Witness ==
    /\ Searched
    /\ m.ok
    /\ \E name \in Names :
          /\ Consumed(name) # {}
          /\ Last(Consumed(name)) < Last(Occurrences(name))
          /\ Captured(Last(Consumed(name))) # <<>>

\* C11: every slice a constrained hole took is a full match of its
\* constraint, on texts with newlines too: a digit value is one or more
\* digits, a word value one or more word characters, a num value a signed
\* decimal with optional fraction and exponent, a user-regex value a full
\* match of the regex.
C11_FullMatch ==
    (Searched /\ m.ok) =>
        \A k \in 1..Len(tokens) :
           (ConstrainedAt(k) /\ ~m.segs[k].skipped) =>
               /\ tokens[k].macro \in REGEX_MACROS =>
                     MacroFull(tokens[k].macro, Captured(k))
               /\ tokens[k].regex # <<>> =>
                     RegexFullmatch(tokens[k].regex, Captured(k))

\* a hole content with a ':' and no '~' whose right-hand side, the '?' of an
\* optional hole put aside, is no key of the macro tables
NamesNoMacro(content0) ==
    LET content == IF content0 # <<>> /\ content0[Len(content0)] = "?"
                   THEN Slice(content0, 0, Len(content0) - 1) ELSE content0
        colon == IndexOf(content, ":", 0)
    IN /\ colon # -1
       /\ IndexOf(content, "~", 0) = -1
       /\ Strip(SliceFrom(content, colon + 1))
             \notin REGEX_MACROS \cup DOMAIN STRUCTURAL_MACROS

\* C12: a pattern with a hole whose content has a ':' and no '~' and whose
\* right-hand side is no regex macro and no structural macro, the empty
\* right-hand side of :[x:] included, makes the call raise UnknownMacro
\* before any matching.
C12_UnknownMacro ==
    (pc # "call" /\ \E c \in HoleContents(ReplaceDots(pattern), 0) : NamesNoMacro(c)) =>
        /\ pc = "error"
        /\ ret = Raised("UnknownMacro")
        /\ calls = {}

\* C13: each of the six structural macros (), [], {}, (_), [_], {_} can be
\* used: for every key M of the table the pattern :[x:M] compiles without
\* error to a single structural hole named x that carries M.
C13_StructuralMacrosUsable ==
    \A M \in DOMAIN STRUCTURAL_MACROS :
       (pc # "call" /\ pattern = <<":", "[", "x", ":">> \o M \o <<"]">>) =>
           /\ pc # "error"
           /\ tokens = <<HoleToken(<<"x">>, M, <<>>, FALSE)>>

\* what a piece of a template is to render as: a literal as itself; a
\* placeholder as itself when its name is absent or bound to None, when one of
\* its operations is not in the table or when one raises on the value folded
\* so far, and else as the fold of all its operations over the captured value
Expected(piece) ==
    IF Slice(piece, 0, 2) # <<":", "[">> THEN piece
    ELSE LET parts == Split(Slice(piece, 2, Len(piece) - 1), ".")
             name == parts[1]
             ops == Tail(parts)
             bound == name \in DOMAIN captures /\ captures[name] # NoneVal
             folded[k \in 0 .. Len(ops)] ==
                 IF k = 0 THEN captures[name]
                 ELSE IF ops[k] \in OperationNames
                      THEN OPERATIONS(ops[k], folded[k - 1]).val
                      ELSE folded[k - 1]
             unknown == \E k \in 1 .. Len(ops) : ops[k] \notin OperationNames
             raises == \E k \in 1 .. Len(ops) :
                          /\ \A j \in 1 .. k : ops[j] \in OperationNames
                          /\ ~OPERATIONS(ops[k], folded[k - 1]).ok
         IN IF ~bound \/ unknown \/ raises THEN piece ELSE folded[Len(ops)]

\* C14: rendering is all-or-nothing per placeholder: the rendered template is
\* the concatenation, piece by piece, of the literals and of each
\* placeholder either folded through all its operations or left verbatim,
\* verbatim exactly when the name is absent, bound to None, an operation is
\* unknown or an operation raises.
C14_AllOrNothing ==
    (entry = "render_template" /\ pc = "done") =>
        \A ps \in PieceSeqs :
           replacement = Concat(ps) =>
               ret = ReturnStr(Concat([k \in 1 .. Len(ps) |-> Expected(ps[k])]))

\* :[x.upper.inc] with x = 'a': upper applies, inc raises, the placeholder
\* is left as it is
C14_Witness ==
    /\ entry = "render_template"
    /\ pc = "done"
    /\ replacement = <<":", "[", "x", ".", "u", "p", "p", "e", "r", ".", "i", "n", "c", "]">>
    /\ captures = Bind(EmptyCaptures, <<"x">>, <<"a">>)
    /\ ret = ReturnStr(replacement)

\* the slices the tokens of the last match took follow one another from the
\* match's start to its end
Tiles ==
    /\ Len(m.segs) = Len(tokens)
    /\ m.segs[1].s = m.start
    /\ m.segs[Len(tokens)].e = m.end
    /\ \A k \in 1 .. Len(tokens) - 1 : m.segs[k + 1].s = m.segs[k].e

\* sl is the literal lit, each space of lit standing for zero or more
\* whitespace characters
RECURSIVE Relaxed(_, _)
Relaxed(lit, sl) ==
    IF lit = <<>> THEN sl = <<>>
    ELSE IF lit[1] = " "
         THEN \/ Relaxed(Tail(lit), sl)
              \/ sl # <<>> /\ IsSpace(sl[1]) /\ Relaxed(lit, Tail(sl))
         ELSE sl # <<>> /\ sl[1] = lit[1] /\ Relaxed(Tail(lit), Tail(sl))

\* the value the k-th token, a hole, captured: the binding of its name when
\* it is the only hole of that name, else the chunk or slice it took
HoleValue(k) ==
    IF tokens[k].name # <<>> /\ Occurrences(tokens[k].name) = {k}
    THEN m.caps[tokens[k].name]
    ELSE Captured(k)

TookSlice(k) == Slice(searched, m.segs[k].s, m.segs[k].e)

\* C15 as stated: the texts of the literals and the captured values of the
\* holes, in pattern order, recompose text[s..e) of a successful match, a
\* space of a literal standing for zero or more whitespace characters.
C15_Coverage ==
    (Searched /\ m.ok) =>
        /\ Tiles
        /\ \A k \in 1 .. Len(tokens) :
              IF tokens[k].kind = "literal" THEN Relaxed(tokens[k].txt, TookSlice(k))
              ELSE IF m.segs[k].skipped THEN TookSlice(k) = <<>>
              ELSE HoleValue(k) = TookSlice(k)

\* C15 amended: the same, an inner-only structural hole (_), [_], {_} standing
\* for its open delimiter, its captured value and its close delimiter, and a
\* skipped optional hole for nothing.
C15_CoverageWithDelimiters ==
    (Searched /\ m.ok) =>
        /\ Tiles
        /\ \A k \in 1 .. Len(tokens) :
              IF tokens[k].kind = "literal" THEN Relaxed(tokens[k].txt, TookSlice(k))
              ELSE IF m.segs[k].skipped THEN TookSlice(k) = <<>>
              ELSE IF tokens[k].macro \in DOMAIN STRUCTURAL_MACROS
                      /\ STRUCTURAL_MACROS[tokens[k].macro].inner_only
              THEN <<STRUCTURAL_MACROS[tokens[k].macro].open_ch>> \o HoleValue(k)
                       \o <<STRUCTURAL_MACROS[tokens[k].macro].close_ch>> = TookSlice(k)
              ELSE HoleValue(k) = TookSlice(k)

\* :[x:(_)] on a(1): the span is [1, 4) and x is bound to 1
C15_Witness ==
    /\ Searched
    /\ m.ok
    /\ pattern = P_paren_inner
    /\ m.start = 1
    /\ m.end = 4
    /\ m.caps = Bind(EmptyCaptures, <<"x">>, <<"1">>)

\* C16: a run of main that reads its arguments without error and whose
\* pattern compiles exits with 0 if at least one match was found (query mode)
\* or replaced (replace mode) and with 1 if none was; a match that binds no
\* named hole and a replacement that renders the matched text count as found.
C16_ExitCode ==
    (pc = "exit" /\ pattern # <<>> /\ ret.kind # "raise") =>
        exit_code = IF last_span # <<-1, -1>> THEN 0 ELSE 1

\* the lexer state is Normal: in no string and in no comment
NormalState(sc) == sc.in_string = "" /\ ~sc.in_line_comment /\ ~sc.in_block_comment

\* the number of positions of t[from .. to) that hold c
CountOf(t, c, from, to) == Cardinality({p \in from .. to - 1 : t[p + 1] = c})

\* a pass of the loop changes depth only in the Normal state and on an open
\* (by +1) or a close (by -1) character
C17_DepthOnlyInNormal ==
    (pc = "scan" /\ scan'.depth # scan.depth) =>
        /\ NormalState(scan)
        /\ scan.i < Len(text)
        /\ \/ ScanC = scan.open_ch /\ scan'.depth = scan.depth + 1
           \/ ScanC = scan.close_ch /\ scan'.depth = scan.depth - 1

\* the scan returns an end exactly on a pass that is in the Normal state on a
\* close character with depth 1, and the end is the position after it
C17_FirstClose ==
    pc = "scan" =>
        /\ (pc' = "done" /\ scan'.new_i # -1) <=>
              /\ scan.i < Len(text)
              /\ NormalState(scan)
              /\ ScanC = scan.close_ch
              /\ scan.depth = 1
        /\ scan'.new_i # -1 => scan'.new_i = scan.i + 1 /\ scan'.depth = 0

\* the region returned holds as many open as close characters when each of
\* its delimiters was met in the Normal state
C17_EqualCounts ==
    (pc = "done" /\ scan.new_i # -1
       /\ \A p \in scan.start + 1 .. scan.new_i - 1 :
             text[p + 1] \in {scan.open_ch, scan.close_ch} => p \in scan.normal) =>
        CountOf(text, scan.open_ch, scan.start, scan.new_i)
            = CountOf(text, scan.close_ch, scan.start, scan.new_i)

\* C17: scanner fidelity: delimiters inside a string, a line comment or a
\* block comment never change depth; depth changes only in the Normal state,
\* is at least 1 while the scan goes on, the scan succeeds at the first
\* Normal-state close character that brings depth to 0, and a region whose
\* delimiters all lie outside strings and comments has equal counts of open
\* and close characters.
C17_ScannerFidelity ==
    /\ [][C17_DepthOnlyInNormal /\ C17_FirstClose]_vars
    /\ [](pc = "scan" => scan.depth >= 1)
    /\ []C17_EqualCounts

\* (")") scanned from 0: the close character inside the string is passed
\* over and the end is 5
C17_Witness ==
    /\ entry = "match_balanced"
    /\ pc = "done"
    /\ text = <<"(", "\"", ")", "\"", ")">>
    /\ scan.start = 0
    /\ scan.new_i = 5

\* the index match_balanced was called with
ScanArg == IF scan.start = -1 THEN scan.i ELSE scan.start

\* C18: match_balanced fails or returns an end with i < end <= len(text),
\* text[i] the open and text[end - 1] the close character; it fails when
\* text[i] is not the open character and when the end of the text is
\* reached, with depth not 0 or in an unterminated string or comment, an
\* escape that steps past the end included; and what it returns is what
\* the matching engine's match_balanced gives.
C18_WellFormed ==
    (entry = "match_balanced" /\ pc = "done") =>
        /\ scan.new_i # -1 =>
              /\ ScanArg < scan.new_i
              /\ scan.new_i <= Len(text)
              /\ text[ScanArg + 1] = scan.open_ch
              /\ text[scan.new_i] = scan.close_ch
        /\ ~(ScanArg < Len(text) /\ text[ScanArg + 1] = scan.open_ch) => scan.new_i = -1
        /\ scan.i >= Len(text) => scan.new_i = -1
        /\ [new_i |-> scan.new_i, chunk |-> scan.chunk]
              = match_balanced(text, ScanArg, scan.open_ch, scan.close_ch, scan.inner_only)

\* ("\ scanned from 0: the escape steps past the end of the text
C18_Witness ==
    /\ entry = "match_balanced"
    /\ pc = "done"
    /\ text = <<"(", "\"", "\\">>
    /\ scan.start = 0
    /\ scan.i = Len(text) + 1
    /\ scan.new_i = -1

\* recursive calls made with the same token index
callees_same_token(t, toks, ti, i) ==
    IF ti = Len(toks) THEN {}
    ELSE {<<ti, e>> : e \in i .. Len(t)}

\* the recursive calls (ti, i) the frame match_from(t, toks, ti, i, ..) can
\* make: one after a literal or a structural hole that matched, one for each
\* candidate end that passes the constraint, and the skip of an optional hole
callees(t, toks, ti, i) ==
    IF ti = Len(toks) THEN {}
    ELSE IF toks[ti + 1].kind = "literal"
    THEN {<<ti + 1, e>> : e \in {literal_match(toks[ti + 1].txt, t, i)} \ {-1}}
    ELSE IF toks[ti + 1].macro \in DOMAIN STRUCTURAL_MACROS
    THEN {<<ti + 1, b.new_i>> :
             b \in {r \in {match_balanced(t, i,
                                          STRUCTURAL_MACROS[toks[ti + 1].macro].open_ch,
                                          STRUCTURAL_MACROS[toks[ti + 1].macro].close_ch,
                                          STRUCTURAL_MACROS[toks[ti + 1].macro].inner_only)} :
                      r.new_i # -1}}
    ELSE {<<ti + 1, e>> :
             e \in {c \in Range(end_iter(toks[ti + 1], t, i)) :
                      Constraint(toks[ti + 1], Slice(t, i, c))}}
         \cup (IF toks[ti + 1].optional THEN {<<ti + 1, i>>} ELSE {})

\* the frames of match_from under match_first(t, toks): those match_first
\* calls, and level by level those they call
Frames(t, toks) ==
    LET Level[k \in 0 .. Len(toks)] ==
            IF k = 0 THEN {<<0, a>> : a \in Range(Anchors(t))}
            ELSE UNION {callees(t, toks, f[1], f[2]) : f \in Level[k - 1]}
    IN UNION {Level[k] : k \in 0 .. Len(toks)}

\* C19: match_from terminates: every recursive call is made with token
\* index ti + 1, so no frame is deeper than the number of tokens; a frame's
\* candidate end positions are finitely many and lie in i..len(text); and
\* the text index of a recursive call is at least the caller's and at most
\* len(text). The tokens of a match found were matched by such frames.
C19_MatchFromTerminates ==
    Searched =>
        \E frames \in {Frames(searched, tokens)} :
           /\ \A f \in frames :
                 /\ f[1] \in 0 .. Len(tokens)
                 /\ f[2] \in 0 .. Len(searched)
                 /\ \A c \in callees(searched, tokens, f[1], f[2]) :
                       /\ c[1] = f[1] + 1
                       /\ c \in frames
                       /\ f[2] <= c[2]
                       /\ c[2] <= Len(searched)
                 /\ (f[1] < Len(tokens) /\ tokens[f[1] + 1].kind = "hole") =>
                       /\ Range(end_iter(tokens[f[1] + 1], searched, f[2]))
                             \subseteq f[2] .. Len(searched)
                       /\ Len(end_iter(tokens[f[1] + 1], searched, f[2]))
                             <= Len(searched) - f[2] + 1
           /\ m.ok =>
                 \A k \in 1 .. Len(tokens) :
                    /\ <<k - 1, m.segs[k].s>> \in frames
                    /\ <<k, m.segs[k].e>> \in frames

\* a match of a pattern of three tokens whose literal took a space
C19_Witness ==
    /\ Searched
    /\ m.ok
    /\ Len(tokens) = 3
    /\ m.segs[2].e > m.segs[2].s
    /\ <<3, m.end>> \in Frames(searched, tokens)

\* the k-th token is a plain wildcard hole with the optional flag
OptionalWildcardAt(k) == WildcardAt(k) /\ tokens[k].optional

\* the tokens of the same pattern with the ? of its plain wildcard holes removed
WithoutOptionalWildcards ==
    [k \in 1 .. Len(tokens) |->
        IF OptionalWildcardAt(k) THEN [tokens[k] EXCEPT !.optional = FALSE]
        ELSE tokens[k]]

\* C20: the optional flag has no observable effect on a plain wildcard hole:
\* in a successful match an optional wildcard hole is never skipped and, when
\* named, is bound to a string and never to None; and the search gives the
\* same outcome, span and bindings as the same pattern without the ?.
C20_OptionalWildcard ==
    (Searched /\ \E k \in 1 .. Len(tokens) : OptionalWildcardAt(k)) =>
        /\ m.ok =>
              \A k \in 1 .. Len(tokens) :
                 OptionalWildcardAt(k) =>
                     /\ ~m.segs[k].skipped
                     /\ tokens[k].name # <<>> =>
                           /\ tokens[k].name \in DOMAIN m.caps
                           /\ m.caps[tokens[k].name] # NoneVal
        /\ \E r \in {match_first(searched, WithoutOptionalWildcards)} :
              /\ r.ok = m.ok
              /\ m.ok => r.start = m.start /\ r.end = m.end /\ r.caps = m.caps

\* :[x?]1 on a text that starts with 1: x is bound to the empty string
C20_Witness ==
    /\ Searched
    /\ m.ok
    /\ pattern = P_xopt_1
    /\ m.start = 0
    /\ m.end = 1
    /\ m.caps = Bind(EmptyCaptures, <<"x">>, <<>>)

====
